---- MODULE Spec2Model ----
(***************************************************************************)
(* Model of finds/alfred.py: the Alfred class (memory cache of series,     *)
(* FRED/ALFRED requests with fallback, pickle load/dump, header lookup)    *)
(* and the static method Alfred.construct_series, which builds a series    *)
(* as of a vintage and release from the full observations table.           *)
(*                                                                         *)
(* Representation of values:                                               *)
(*   - an API date string 'YYYY-MM-DD' is the tuple <<y, m, d>>; strings   *)
(*     of this fixed width compare lexicographically (StrLE);              *)
(*   - an int date YYYYMMDD is an integer;                                 *)
(*   - a pandas Timestamp is the record [year, month, day];                *)
(*   - a float that may be NaN is <<v>> or <<>> (NaN);                     *)
(*   - a DataFrame is a sequence of row records; the DataFrame() with no   *)
(*     columns at all is NoColumns.                                        *)
(***************************************************************************)
EXTENDS Integers, Sequences, FiniteSets, TLC

VARIABLES
    _cache,     \* Alfred._cache: dict series_id -> {'observations', 'series'}
    _header,    \* Alfred._header: dict series_id -> last metadata row
    files,      \* pickle files on disk: file name -> pickled bytes
    http,       \* the requests issued by the call in progress, in order
    ret,        \* the call just made: method, arguments, outcome
    trip,       \* progress of the latest dump / clear / load sequence
    csIn,       \* input table given to construct_series
    csOut,      \* arguments and result of construct_series
    em,         \* frame of a factors_em call: arguments, locals, outcome
    boot        \* the spot curve being bootstrapped from par yields

vars == <<_cache, _header, files, http, ret, trip, csIn, csOut, em, boot>>

alfredVars == <<_cache, _header, files, http, ret, trip>>
csVars == <<csIn, csOut>>
numVars == <<em, boot>>

----------------------------------------------------------------------------
(* Dates *)

NaN == <<>>

EndOfTime == 99991231

\* Comparison of two 'YYYY-MM-DD' strings (lexicographic, fixed width).
StrLE(a, b) ==
    \/ a[1] < b[1]
    \/ a[1] = b[1] /\ a[2] < b[2]
    \/ a[1] = b[1] /\ a[2] = b[2] /\ a[3] <= b[3]

\* str(date)[0:4] + '-' + str(date)[4:6] + '-' + str(date)[6:8], for an
\* int date of eight digits.
_int2date(date) == <<date \div 10000, (date \div 100) % 100, date % 100>>

\* int(re.sub('\D', '', str(date)[:10]))
_date2int(date) == date[1] * 10000 + date[2] * 100 + date[3]

\* pd.to_datetime of a 'YYYY-MM-DD' string
to_datetime(s) == [year |-> s[1], month |-> s[2], day |-> s[3]]

\* Timestamp.strftime('%Y-%m-%d')
strftime_dash(ts) == <<ts.year, ts.month, ts.day>>

\* Timestamp.strftime('%Y%m%d').astype(int)
strftime_int(ts) == ts.year * 10000 + ts.month * 100 + ts.day

TsLT(a, b) == strftime_int(a) < strftime_int(b)

IsLeap(y) == (y % 4 = 0 /\ y % 100 # 0) \/ y % 400 = 0

DaysInMonth(y, m) ==
    IF m = 2 THEN (IF IsLeap(y) THEN 29 ELSE 28)
    ELSE IF m \in {4, 6, 9, 11} THEN 30 ELSE 31

\* ts + MonthEnd(0): roll forward to the end of the month
MonthEnd0(ts) == [ts EXCEPT !.day = DaysInMonth(ts.year, ts.month)]

QuarterMonth(m) == ((m - 1) \div 3) * 3 + 3

\* ts + QuarterEnd(0): roll forward to the end of the quarter
QuarterEnd0(ts) ==
    [year |-> ts.year, month |-> QuarterMonth(ts.month),
     day |-> DaysInMonth(ts.year, QuarterMonth(ts.month))]

\* ts + QuarterEnd(1): the next quarter end strictly after ts
QuarterEnd1(ts) ==
    IF ts # QuarterEnd0(ts) THEN QuarterEnd0(ts)
    ELSE IF ts.month = 12 THEN [year |-> ts.year + 1, month |-> 3, day |-> 31]
    ELSE [year |-> ts.year, month |-> ts.month + 3,
          day |-> DaysInMonth(ts.year, ts.month + 3)]

\* ts + YearEnd(0): roll forward to the end of the year
YearEnd0(ts) == [year |-> ts.year, month |-> 12, day |-> 31]

NextDay(ts) ==
    IF ts.day < DaysInMonth(ts.year, ts.month) THEN [ts EXCEPT !.day = @ + 1]
    ELSE IF ts.month < 12 THEN [ts EXCEPT !.month = @ + 1, !.day = 1]
    ELSE [year |-> ts.year + 1, month |-> 1, day |-> 1]

RECURSIVE AddDays(_, _)
\* ts + pd.DateOffset(days=k)
AddDays(ts, k) == IF k = 0 THEN ts ELSE AddDays(NextDay(ts), k - 1)

----------------------------------------------------------------------------
(* DataFrame helpers *)

\* The rows of df at the positions in keep, in their order (boolean mask).
Pick(df, keep) ==
    LET F[n \in 0..Len(df)] ==
            IF n = 0 THEN <<>>
            ELSE IF n \in keep THEN Append(F[n - 1], df[n]) ELSE F[n - 1]
    IN F[Len(df)]

\* Sort key of df.sort_values(by=['date', 'realtime_start'])
RowLE(a, b) ==
    \/ TsLT(a.date, b.date)
    \/ a.date = b.date /\ StrLE(a.realtime_start, b.realtime_start)

\* r placed behind every row that is not greater than it (stable)
InsertRow(sorted, r) ==
    LET before == {i \in 1..Len(sorted) : RowLE(sorted[i], r)}
        k == Cardinality(before)
    IN SubSeq(sorted, 1, k) \o <<r>> \o SubSeq(sorted, k + 1, Len(sorted))

\* df.sort_values(by=['date', 'realtime_start'])
sort_values(df) ==
    LET F[n \in 0..Len(df)] ==
            IF n = 0 THEN <<>> ELSE InsertRow(F[n - 1], df[n])
    IN F[Len(df)]

\* df.groupby('date').cumcount() at position i
cumcount(df, i) == Cardinality({j \in 1..(i - 1) : df[j].date = df[i].date})

\* df.drop_duplicates('date', keep='last')
drop_duplicates_last(df) ==
    Pick(df, {i \in 1..Len(df) :
                ~ \E j \in (i + 1)..Len(df) : df[j].date = df[i].date})

\* df.drop_duplicates('date', keep='first')
drop_duplicates_first(df) ==
    Pick(df, {i \in 1..Len(df) :
                ~ \E j \in 1..(i - 1) : df[j].date = df[i].date})

\* df.sort_index() on the int date index
sort_index(df) ==
    LET Ins(sorted, r) ==
            LET k == Cardinality({i \in 1..Len(sorted) : sorted[i].date <= r.date})
            IN SubSeq(sorted, 1, k) \o <<r>> \o SubSeq(sorted, k + 1, Len(sorted))
        F[n \in 0..Len(df)] ==
            IF n = 0 THEN <<>> ELSE Ins(F[n - 1], df[n])
    IN F[Len(df)]

\* pd.to_numeric(value, errors='coerce') of a value string of the API
to_numeric(v) ==
    CASE v = "1" -> <<1>>
      [] v = "2" -> <<2>>
      [] v = "3" -> <<3>>
      [] OTHER -> NaN

\* freq.upper()[0]
FirstUpper(freq) ==
    CASE freq \in {"A", "a"} -> "A"
      [] freq \in {"SA", "sa"} -> "S"
      [] freq \in {"Q", "q"} -> "Q"
      [] freq \in {"M", "m"} -> "M"
      [] freq \in {"BW", "bw"} -> "B"
      [] freq \in {"W", "w"} -> "W"
      [] freq \in {"D", "d"} -> "D"
      [] OTHER -> "*"

----------------------------------------------------------------------------
(* Alfred.construct_series *)

\* value to numeric, date to datetime, rows with a missing value dropped
CoerceDropNa(observations) ==
    LET df == [i \in 1..Len(observations) |->
                 [date |-> to_datetime(observations[i].date),
                  realtime_start |-> observations[i].realtime_start,
                  realtime_end |-> observations[i].realtime_end,
                  value |-> to_numeric(observations[i].value)]]
    IN Pick(df, {i \in 1..Len(df) : df[i].value # NaN})

\* the period date moved to the end of its period
FreqDate(ts, freq) ==
    IF freq = "" THEN ts
    ELSE CASE FirstUpper(freq) = "A" -> YearEnd0(ts)
           [] FirstUpper(freq) = "S" -> QuarterEnd1(ts)
           [] FirstUpper(freq) = "Q" -> QuarterEnd0(ts)
           [] FirstUpper(freq) = "M" -> MonthEnd0(ts)
           [] FirstUpper(freq) = "B" -> AddDays(ts, 13)
           [] FirstUpper(freq) = "W" -> AddDays(ts, 6)
           [] OTHER -> ts

FreqAdjust(df, freq) ==
    [i \in 1..Len(df) |-> [df[i] EXCEPT !.date = FreqDate(@, freq)]]

\* rows released by the vintage, when there is any such row
VintageFilter(df, vintage) ==
    LET ok == {i \in 1..Len(df) : StrLE(df[i].realtime_start, _int2date(vintage))}
    IN IF ok # {} THEN Pick(df, ok) ELSE df

\* the rows with release number n, and those with a date offset release
ReleaseNumber(df, n) == Pick(df, {i \in 1..Len(df) : cumcount(df, i) + 1 = n})
ReleaseByOffset(df, days) ==
    Pick(df, {i \in 1..Len(df) :
                StrLE(df[i].realtime_start,
                      strftime_dash(AddDays(df[i].date, days)))})

\* Variant: release=0 keeps the first release of each date.
SelectReleaseKeepFirst(df, release) ==
    IF release.kind = "int" /\ release.n = 0 THEN drop_duplicates_first(df)
    ELSE IF release.kind = "int" THEN
        drop_duplicates_first(ReleaseNumber(df, release.n))
    ELSE drop_duplicates_last(ReleaseByOffset(df, release.n))

\* Variant: release=n falls back to the latest release of a date that has
\* fewer than n releases (keep latest up to max release).
SelectReleaseUpToMax(df, release) ==
    IF release.kind = "int" /\ release.n = 0 THEN drop_duplicates_last(df)
    ELSE IF release.kind = "int" THEN
        drop_duplicates_first(
            ReleaseNumber(df, release.n) \o drop_duplicates_last(df))
    ELSE drop_duplicates_last(ReleaseByOffset(df, release.n))

\* Variant: release=0 numbers the releases and keeps them all.
SelectReleaseKeepAll(df, release) ==
    IF release.kind = "int" /\ release.n = 0 THEN df
    ELSE IF release.kind = "int" THEN
        drop_duplicates_first(ReleaseNumber(df, release.n))
    ELSE drop_duplicates_last(ReleaseByOffset(df, release.n))

\* the release of each date: latest (0), exactly number n, or the latest
\* up through a date offset
SelectRelease(df, release) ==
    IF release.kind = "int" /\ release.n = 0 THEN
        drop_duplicates_last(df)
    ELSE IF release.kind = "int" THEN
        drop_duplicates_first(ReleaseNumber(df, release.n))
    ELSE
        drop_duplicates_last(ReleaseByOffset(df, release.n))

\* dates and realtime columns as int, indexed and sorted by date
IndexByDate(df) ==
    sort_index([i \in 1..Len(df) |->
                  [date |-> strftime_int(df[i].date),
                   realtime_start |-> _date2int(df[i].realtime_start),
                   realtime_end |-> _date2int(df[i].realtime_end),
                   value |-> df[i].value]])

Min(a, b) == IF a <= b THEN a ELSE b

\* Variant: the end of the range is exclusive.
RangeFilterExclusive(df, vintage, start, end) ==
    Pick(df, {i \in 1..Len(df) :
                df[i].date < Min(end, vintage) /\ df[i].date >= start})

\* df[(df.index <= min(end, vintage)) & (df.index >= start)]
RangeFilter(df, vintage, start, end) ==
    Pick(df, {i \in 1..Len(df) :
                df[i].date <= Min(end, vintage) /\ df[i].date >= start})

\* how a call ends: it returns a value, returns None, or raises
Returned(v) == [kind |-> "return", value |-> v]
ReturnedNone == [kind |-> "None", value |-> <<>>]
Raised == [kind |-> "raise", value |-> <<>>]

construct_series(observations, vintage, release, start, end, freq) ==
    IF observations = <<>> THEN Raised    \* KeyError: no 'value' column
    ELSE Returned(
        RangeFilter(
            IndexByDate(
                SelectRelease(
                    sort_values(
                        VintageFilter(
                            FreqAdjust(CoerceDropNa(observations), freq),
                            vintage)),
                    release)),
            vintage, start, end))

----------------------------------------------------------------------------
(* dict helpers *)

DictSet(d, k, v) == [x \in DOMAIN d \cup {k} |-> IF x = k THEN v ELSE d[x]]
\* Variant: pop returns the entry and keeps it in the dict.
DictPopKeep(d, k) == d
DictPop(d, k) == [x \in DOMAIN d \ {k} |-> d[x]]
\* list(self._cache.keys()): the ids of the cached series
keys(cache) == DOMAIN cache
DictUpdate(d, e) ==
    [x \in DOMAIN d \cup DOMAIN e |-> IF x \in DOMAIN e THEN e[x] ELSE d[x]]

----------------------------------------------------------------------------
(* The FRED web service, as seen through finds.database.requests_get *)

None == <<>>
Response(content) == <<content>>

DefaultStart == 17760704
Today == <<2026, 11, 2>>

SeriesIds == {"GDP", "HWI"}
StarterIds == {"HWI"}       \* ids described in the starter Alfred._header

\* formatters of the query urls
_alfred_url(api, series_id, start, end) ==
    [api |-> api, series_id |-> series_id,
     realtime_start |-> start, realtime_end |-> end]
_fred_url(api, series_id) == [api |-> api, series_id |-> series_id]

IsAlfredUrl(url) == "realtime_start" \in DOMAIN url

\* rows of the 'series' api: the metadata of a series as of a realtime period
SeriesRow1(id) == [id |-> id, title |-> "Title 1", frequency_short |-> "M"]
SeriesRow2(id) == [id |-> id, title |-> "Title 2", frequency_short |-> "Q"]

Obs(date, rs, re, value) ==
    [date |-> date, realtime_start |-> rs, realtime_end |-> re, value |-> value]

\* a 'series/observations' answer with vintages, and one without
AlfredObservations ==
    [realtime_start |-> _int2date(DefaultStart),
     realtime_end |-> _int2date(EndOfTime),
     observations |->
        <<Obs(<<2020, 1, 1>>, _int2date(DefaultStart), _int2date(EndOfTime), "1"),
          Obs(<<2020, 2, 1>>, <<2020, 3, 5>>, <<2020, 4, 1>>, "."),
          Obs(<<2020, 2, 1>>, <<2020, 4, 2>>, _int2date(EndOfTime), "3")>>]
FredObservations ==
    [realtime_start |-> Today, realtime_end |-> Today,
     observations |->
        <<Obs(<<2020, 1, 1>>, Today, Today, "1"),
          Obs(<<2020, 2, 1>>, Today, Today, "2")>>]
NoObservations ==
    [realtime_start |-> Today, realtime_end |-> Today, observations |-> <<>>]

\* what the web service may answer to the queries about a series
NoSeries == Response([seriess |-> <<>>])
OneSeriesRow(id) == Response([seriess |-> <<SeriesRow1(id)>>])
TwoSeriesRows(id) == Response([seriess |-> <<SeriesRow1(id), SeriesRow2(id)>>])

\* The answers of the web service during one call, by query.  A query that
\* the call does not make has no answer: its entry is None, like that of a
\* query that failed.
AllWebs(id) ==
    IF id \in StarterIds
    THEN [series_alfred : {None, OneSeriesRow(id)}, series_fred : {None},
          obs_alfred : {None, Response(AlfredObservations)}, obs_fred : {None}]
    ELSE [series_alfred : {None, OneSeriesRow(id), TwoSeriesRows(id)},
          series_fred : {None, NoSeries, OneSeriesRow(id)},
          obs_alfred : {None, Response(AlfredObservations),
                        Response(NoObservations)},
          obs_fred : {None, Response(FredObservations)}]

NoWeb ==
    [series_alfred |-> None, series_fred |-> None,
     obs_alfred |-> None, obs_fred |-> None]

\* the metadata that the two 'series' queries yield together
SeriesYield(web) ==
    IF web.series_alfred # None THEN web.series_alfred[1].seriess
    ELSE IF web.series_fred # None THEN web.series_fred[1].seriess
    ELSE <<>>

\* The answers during a call that retrieves a series: the plain FRED query
\* is made only after the ALFRED query failed, and the observations are
\* queried only when the metadata is not empty.
Webs(id) ==
    {web \in AllWebs(id) :
        /\ web.series_alfred # None => web.series_fred = None
        /\ web.obs_alfred # None => web.obs_fred = None
        /\ SeriesYield(web) = <<>> => web.obs_alfred = None /\ web.obs_fred = None}

\* the answers during a call that makes the 'series' queries only, and
\* during one that makes the 'series/observations' queries only
SeriesWebs(id) ==
    {web \in AllWebs(id) :
        /\ web.series_alfred # None => web.series_fred = None
        /\ web.obs_alfred = None /\ web.obs_fred = None}
ObservationsWebs(id) ==
    {web \in AllWebs(id) :
        /\ web.series_alfred = None /\ web.series_fred = None
        /\ web.obs_alfred # None => web.obs_fred = None}

\* the answers during a call that retrieves the series only when asked to
WebsWhen(retrieves, id) == IF retrieves THEN Webs(id) ELSE {NoWeb}

\* requests_get(url): the response, or None when the request failed
requests_get(url, web) ==
    IF url.api = "series"
    THEN (IF IsAlfredUrl(url) THEN web.series_alfred ELSE web.series_fred)
    ELSE (IF IsAlfredUrl(url) THEN web.obs_alfred ELSE web.obs_fred)

\* the record of a request in the log of a call: the url, and whether
\* requests_get returned a response
Req(url, web) == [url |-> url, ok |-> requests_get(url, web) # None]

----------------------------------------------------------------------------
(* Alfred.request_series, Alfred.request_series_observations *)

\* start or self._start
OrDefault(x, default) == IF x # 0 THEN x ELSE default

\* Variant: the plain FRED url is requested first, the ALFRED url on failure.
request_series_fred_first(series_id, start, end, web) ==
    LET url_a == _alfred_url("series", series_id,
                             _int2date(OrDefault(start, DefaultStart)),
                             _int2date(OrDefault(end, EndOfTime)))
        url_f == _fred_url("series", series_id)
    IN IF requests_get(url_f, web) # None
       THEN [value |-> requests_get(url_f, web)[1].seriess,
             log |-> <<Req(url_f, web)>>]
       ELSE IF requests_get(url_a, web) # None
       THEN [value |-> requests_get(url_a, web)[1].seriess,
             log |-> <<Req(url_f, web), Req(url_a, web)>>]
       ELSE [value |-> <<>>, log |-> <<Req(url_f, web), Req(url_a, web)>>]

\* the metadata table (DataFrame() when both requests fail) and the
\* requests made
request_series(series_id, start, end, web) ==
    LET url_a == _alfred_url("series", series_id,
                             _int2date(OrDefault(start, DefaultStart)),
                             _int2date(OrDefault(end, EndOfTime)))
        url_f == _fred_url("series", series_id)
        r_a == requests_get(url_a, web)
        r_f == requests_get(url_f, web)
    IN IF r_a # None THEN [value |-> r_a[1].seriess, log |-> <<Req(url_a, web)>>]
       ELSE IF r_f # None
       THEN [value |-> r_f[1].seriess,
             log |-> <<Req(url_a, web), Req(url_f, web)>>]
       ELSE [value |-> <<>>, log |-> <<Req(url_a, web), Req(url_f, web)>>]

\* convert fred to alfred by backfilling realtime_start
Backfill(contents) ==
    [i \in 1..Len(contents.observations) |->
        LET row == contents.observations[i]
        IN IF /\ row.realtime_start = contents.realtime_start
              /\ row.realtime_end = contents.realtime_end
           THEN [row EXCEPT !.realtime_start = row.date]
           ELSE row]

\* DataFrame of the answer; indexing the columns of an answer without
\* observations raises KeyError in alfred_mode
ObservationsFrame(contents, alfred_mode) ==
    IF ~ alfred_mode THEN Returned(contents.observations)
    ELSE IF contents.observations = <<>> THEN Raised
    ELSE Returned(Backfill(contents))

\* Variant: a failed ALFRED request is tried a second time before the
\* plain FRED url.
request_series_observations_retry(series_id, start, end, alfred_mode, web) ==
    LET url_a == _alfred_url("series/observations", series_id,
                             _int2date(OrDefault(start, DefaultStart)),
                             _int2date(OrDefault(end, EndOfTime)))
        url_f == _fred_url("series/observations", series_id)
        r_a == requests_get(url_a, web)
        r_f == requests_get(url_f, web)
    IN IF r_a # None
       THEN [result |-> ObservationsFrame(r_a[1], alfred_mode),
             log |-> <<Req(url_a, web)>>]
       ELSE IF r_f # None
       THEN [result |-> ObservationsFrame(r_f[1], alfred_mode),
             log |-> <<Req(url_a, web), Req(url_a, web), Req(url_f, web)>>]
       ELSE [result |-> Returned(<<>>),
             log |-> <<Req(url_a, web), Req(url_a, web), Req(url_f, web)>>]

request_series_observations(series_id, start, end, alfred_mode, web) ==
    LET url_a == _alfred_url("series/observations", series_id,
                             _int2date(OrDefault(start, DefaultStart)),
                             _int2date(OrDefault(end, EndOfTime)))
        url_f == _fred_url("series/observations", series_id)
        r_a == requests_get(url_a, web)
        r_f == requests_get(url_f, web)
    IN IF r_a # None
       THEN [result |-> ObservationsFrame(r_a[1], alfred_mode),
             log |-> <<Req(url_a, web)>>]
       ELSE IF r_f # None
       THEN [result |-> ObservationsFrame(r_f[1], alfred_mode),
             log |-> <<Req(url_a, web), Req(url_f, web)>>]
       ELSE [result |-> Returned(<<>>),
             log |-> <<Req(url_a, web), Req(url_f, web)>>]

----------------------------------------------------------------------------
(* Alfred.get_series, Alfred.header *)

\* Variant: a retrieval without metadata forgets the entry cached earlier.
get_series_forgets(cache, series_id, start, end, web) ==
    LET s == request_series(series_id, start, end, web)
        o == request_series_observations(series_id, start, end, TRUE, web)
    IN IF s.value = <<>>
       THEN [cache |-> DictPop(cache, series_id), result |-> Returned(0),
             series |-> s.value, log |-> s.log]
       ELSE IF o.result.kind = "raise"
       THEN [cache |-> cache, result |-> Raised, series |-> s.value,
             log |-> s.log \o o.log]
       ELSE [cache |-> DictSet(cache, series_id,
                               [observations |-> o.result.value,
                                series |-> s.value]),
             result |-> Returned(Len(o.result.value)), series |-> s.value,
             log |-> s.log \o o.log]

\* Variant: an entry is stored although no metadata was retrieved.
get_series_stores_empty(cache, series_id, start, end, web) ==
    LET s == request_series(series_id, start, end, web)
        o == request_series_observations(series_id, start, end, TRUE, web)
    IN IF s.value = <<>>
       THEN [cache |-> DictSet(cache, series_id,
                               [observations |-> <<>>, series |-> s.value]),
             result |-> Returned(0), series |-> s.value, log |-> s.log]
       ELSE IF o.result.kind = "raise"
       THEN [cache |-> cache, result |-> Raised, series |-> s.value,
             log |-> s.log \o o.log]
       ELSE [cache |-> DictSet(cache, series_id,
                               [observations |-> o.result.value,
                                series |-> s.value]),
             result |-> Returned(Len(o.result.value)), series |-> s.value,
             log |-> s.log \o o.log]

\* get_series for a single id: the cache afterwards, the outcome (the length
\* of the observations table), the metadata requested and the requests made
get_series(cache, series_id, start, end, web) ==
    LET s == request_series(series_id, start, end, web)
        o == request_series_observations(series_id, start, end, TRUE, web)
    IN IF s.value = <<>>
       THEN [cache |-> cache, result |-> Returned(0), series |-> s.value,
             log |-> s.log]
       ELSE IF o.result.kind = "raise"
       THEN [cache |-> cache, result |-> Raised, series |-> s.value,
             log |-> s.log \o o.log]
       ELSE [cache |-> DictSet(cache, series_id,
                               [observations |-> o.result.value,
                                series |-> s.value]),
             result |-> Returned(Len(o.result.value)), series |-> s.value,
             log |-> s.log \o o.log]

\* f"*** {series_id} ***"
Placeholder(series_id) == "*** " \o series_id \o " ***"

\* row.get(column, default) of a metadata row
RowGet(row, column, default) ==
    IF column \in DOMAIN row THEN row[column] ELSE default

\* the starter dict of series descriptions
StarterHeader == [k \in StarterIds |-> [id |-> k, title |-> "Help Wanted Index"]]

\* header for a single id: the title or column from the last meta record;
\* the record is looked up (and the series retrieved) when the id has none
header(cache, hdr, series_id, column, web) ==
    IF series_id \in DOMAIN hdr
    THEN [cache |-> cache, header |-> hdr, calls |-> 0, log |-> <<>>,
          retrieved |-> ReturnedNone,
          result |-> RowGet(hdr[series_id], column, Placeholder(series_id))]
    ELSE
        LET g == IF series_id \notin DOMAIN cache
                 THEN get_series(cache, series_id, 0, 0, web)
                 ELSE [cache |-> cache, result |-> ReturnedNone, log |-> <<>>]
            calls == IF series_id \notin DOMAIN cache THEN 1 ELSE 0
        IN IF \/ g.result.kind = "raise"
              \/ series_id \notin DOMAIN g.cache
              \/ g.cache[series_id].series = <<>>
           THEN [cache |-> g.cache, header |-> hdr, calls |-> calls,
                 log |-> g.log, retrieved |-> g.result,
                 result |-> Placeholder(series_id)]
           ELSE
               LET series == g.cache[series_id].series
                   h == DictSet(hdr, series_id, series[Len(series)])
               IN [cache |-> g.cache, header |-> h, calls |-> calls,
                   log |-> g.log, retrieved |-> g.result,
                   result |-> RowGet(h[series_id], column,
                                     Placeholder(series_id))]

----------------------------------------------------------------------------
(* Alfred.transform, Alfred.__call__ *)

\* number of difference operations of the transformation codes 1, 2, 3
_tcode(tcode) == [diff |-> tcode - 1, log |-> 0]

\* df.diff(periods=1)
Diff(values) ==
    [i \in 1..Len(values) |->
        IF i = 1 \/ values[i] = NaN \/ values[i - 1] = NaN THEN NaN
        ELSE <<values[i][1] - values[i - 1][1]>>]

RECURSIVE DiffTimes(_, _)
DiffTimes(values, n) == IF n = 0 THEN values ELSE DiffTimes(Diff(values), n - 1)

\* transform of the value column of df (sorted by its index), code tcode
transform(df, tcode) ==
    LET sorted == sort_index(df)
        values == DiffTimes([i \in 1..Len(sorted) |-> sorted[i].value],
                            _tcode(tcode).diff)
    IN [i \in 1..Len(sorted) |-> [date |-> sorted[i].date, value |-> values[i]]]

\* the transformed values, with the realtime columns of df when asked
WithRealtime(s, df, realtime) ==
    IF ~ realtime THEN s
    ELSE [i \in 1..Len(s) |->
            [date |-> s[i].date, value |-> s[i].value,
             realtime_start |-> df[i].realtime_start,
             realtime_end |-> df[i].realtime_end]]

\* Variant: the series is retrieved again although it is cached.
CallAlwaysRetrieve(cache, hdr, series_id, a, web) ==
    LET g == get_series(cache, series_id, 0, 0, web)
        c == IF series_id \in DOMAIN g.cache THEN g.cache ELSE cache
        df == construct_series(c[series_id].observations, a.vintage,
                               a.release, OrDefault(a.start, DefaultStart),
                               OrDefault(a.end, EndOfTime), a.freq)
    IN IF series_id \notin DOMAIN c
       THEN [cache |-> c, header |-> hdr, calls |-> 1, log |-> g.log,
             retrieved |-> g.result, freq |-> a.freq, result |-> ReturnedNone]
       ELSE [cache |-> c, header |-> hdr, calls |-> 1, log |-> g.log,
             retrieved |-> g.result, freq |-> a.freq,
             result |-> IF df.kind = "raise" THEN Raised
                        ELSE Returned(WithRealtime(transform(df.value, a.tcode),
                                                   df.value, a.realtime))]

\* __call__: select from cached, else retrieve observations, and apply
\* transforms
Call(cache, hdr, series_id, a, web) ==
    LET cached == series_id \in DOMAIN cache
        g == IF cached
             THEN [cache |-> cache, result |-> Returned(1), log |-> <<>>]
             ELSE get_series(cache, series_id, 0, 0, web)
        calls == IF cached THEN 0 ELSE 1
    IN IF g.result.kind = "raise"
       THEN [cache |-> g.cache, header |-> hdr, calls |-> calls, log |-> g.log,
             retrieved |-> g.result, freq |-> a.freq, result |-> Raised]
       ELSE IF ~ cached /\ g.result.value = 0
       THEN [cache |-> g.cache, header |-> hdr, calls |-> calls, log |-> g.log,
             retrieved |-> g.result, freq |-> a.freq, result |-> ReturnedNone]
       ELSE
           LET h == IF a.freq = ""
                    THEN header(g.cache, hdr, series_id, "frequency_short", web)
                    ELSE [cache |-> g.cache, header |-> hdr, calls |-> 0,
                          log |-> <<>>, retrieved |-> ReturnedNone,
                          result |-> a.freq]
               df == construct_series(h.cache[series_id].observations,
                                      a.vintage, a.release,
                                      OrDefault(a.start, DefaultStart),
                                      OrDefault(a.end, EndOfTime), h.result)
           IN [cache |-> h.cache, header |-> h.header,
               calls |-> calls + h.calls, log |-> g.log \o h.log,
               retrieved |-> g.result, freq |-> h.result,
               result |-> IF df.kind = "raise" THEN Raised
                          ELSE Returned(WithRealtime(
                                   transform(df.value, a.tcode),
                                   df.value, a.realtime))]

----------------------------------------------------------------------------
(* Alfred.load, Alfred.dump *)

Savefile == "alfred.pkl"        \* self.savefile

\* savefile or self.savefile
OrSavefile(savefile) == IF savefile # "" THEN savefile ELSE Savefile

IdOrder == <<"GDP", "HWI">>

\* pickle.dump of the cache: its items, one after the other
PickleDump(cache) ==
    LET F[n \in 0..Len(IdOrder)] ==
            IF n = 0 THEN <<>>
            ELSE IF IdOrder[n] \in DOMAIN cache
            THEN Append(F[n - 1], [key |-> IdOrder[n], item |-> cache[IdOrder[n]]])
            ELSE F[n - 1]
    IN F[Len(IdOrder)]

\* pickle.load: the dict of the pickled items
PickleLoad(bytes) ==
    [k \in {bytes[i].key : i \in DOMAIN bytes} |->
        bytes[CHOOSE i \in DOMAIN bytes : bytes[i].key = k].item]

\* Variant: only the items that have observations are written.
DumpNonEmpty(cache, fs, savefile) ==
    [files |-> DictSet(fs, OrSavefile(savefile),
                       PickleDump([k \in {x \in DOMAIN cache :
                                            cache[x].observations # <<>>}
                                   |-> cache[k]])),
     result |-> Returned(Cardinality(DOMAIN cache))]

dump(cache, fs, savefile) ==
    [files |-> DictSet(fs, OrSavefile(savefile), PickleDump(cache)),
     result |-> Returned(Cardinality(DOMAIN cache))]

load(cache, fs, savefile) ==
    IF OrSavefile(savefile) \notin DOMAIN fs
    THEN [cache |-> cache, result |-> Raised]      \* FileNotFoundError
    ELSE LET c == DictUpdate(cache, PickleLoad(fs[OrSavefile(savefile)]))
         IN [cache |-> c, result |-> Returned(Cardinality(DOMAIN c))]

----------------------------------------------------------------------------
(* The Alfred object after __init__ *)

InitAlfred ==
    /\ _cache = <<>>
    /\ _header = StarterHeader
    /\ files = <<>>
    /\ http = <<>>
    /\ ret = <<>>
    /\ trip = <<>>

----------------------------------------------------------------------------
(* Inputs of construct_series *)

MaxRows == 2

ObsDates == {<<2020, 1, 15>>, <<2020, 2, 10>>}
ObsRealtimeStarts == {<<2020, 1, 20>>, <<2020, 2, 10>>, <<2020, 3, 5>>}
ObsValues == {"1", "."}

ObsRows ==
    [date : ObsDates, realtime_start : ObsRealtimeStarts,
     realtime_end : {_int2date(EndOfTime)}, value : ObsValues]

ObsTables == UNION {[1..n -> ObsRows] : n \in 0..MaxRows}

Vintages == {20200117, 20200210, EndOfTime}
Releases == {[kind |-> "int", n |-> 0], [kind |-> "int", n |-> 1],
             [kind |-> "int", n |-> 2], [kind |-> "offset", n |-> 30]}
Ranges == {<<0, EndOfTime>>, <<20200201, EndOfTime>>, <<0, 20200131>>}
Freqs == {"", "m", "W"}

----------------------------------------------------------------------------
(* Specification of the static method construct_series on its own *)

InitCS ==
    /\ InitAlfred
    /\ csIn \in ObsTables
    /\ csOut = <<>>
    /\ em = <<>>
    /\ boot = <<>>

CallConstructSeries ==
    /\ csOut = <<>>
    /\ \E vintage \in Vintages, release \in Releases, range \in Ranges,
          freq \in Freqs :
          csOut' = <<[vintage |-> vintage, release |-> release,
                      start |-> range[1], end |-> range[2], freq |-> freq,
                      result |-> construct_series(csIn, vintage, release,
                                                  range[1], range[2], freq)]>>
    /\ UNCHANGED <<csIn, alfredVars, numVars>>

NextCS == CallConstructSeries

SpecCS == InitCS /\ [][NextCS]_vars

----------------------------------------------------------------------------
(* Calls of the methods of an Alfred object *)

Columns == {"title", "frequency_short"}
SavefileArgs == {"", "alfred.pkl"}

LatestRelease == [kind |-> "int", n |-> 0]

CallArgs ==
    [start : {0}, end : {0, 20200131}, vintage : {EndOfTime, 20200115},
     release : {LatestRelease}, freq : {""}, realtime : {FALSE}, tcode : {1}]
    \cup
    {[start |-> 20200201, end |-> 0, vintage |-> EndOfTime,
      release |-> LatestRelease, freq |-> "", realtime |-> FALSE, tcode |-> 1]}
    \cup
    {[start |-> 0, end |-> 0, vintage |-> EndOfTime,
      release |-> [kind |-> "int", n |-> 1], freq |-> "W", realtime |-> TRUE,
      tcode |-> 2]}

Init ==
    /\ InitAlfred
    /\ csIn = <<>>
    /\ csOut = <<>>
    /\ em = <<>>
    /\ boot = <<>>

DoRequestSeries(series_id) ==
    \E web \in SeriesWebs(series_id) :
        LET s == request_series(series_id, 0, 0, web)
        IN /\ http' = s.log
           /\ ret' = <<[op |-> "request_series", series_id |-> series_id,
                        result |-> Returned(s.value)]>>
           /\ UNCHANGED <<_cache, _header, files, trip, csVars, numVars>>

DoRequestSeriesObservations(series_id, alfred_mode) ==
    \E web \in ObservationsWebs(series_id) :
        LET o == request_series_observations(series_id, 0, 0, alfred_mode, web)
        IN /\ http' = o.log
           /\ ret' = <<[op |-> "request_series_observations",
                        series_id |-> series_id, alfred_mode |-> alfred_mode,
                        result |-> o.result]>>
           /\ UNCHANGED <<_cache, _header, files, trip, csVars, numVars>>

DoGetSeries(series_id) ==
    \E web \in Webs(series_id) :
        \E g \in {get_series(_cache, series_id, 0, 0, web)} :
           /\ _cache' = g.cache
           /\ http' = g.log
           /\ ret' = <<[op |-> "get_series", series_id |-> series_id,
                        series |-> g.series, result |-> g.result]>>
           /\ trip' = <<>>
           /\ UNCHANGED <<_header, files, csVars, numVars>>

DoHeader(series_id, column) ==
    \E web \in WebsWhen(series_id \notin DOMAIN _header
                        /\ series_id \notin DOMAIN _cache, series_id) :
        \E h \in {header(_cache, _header, series_id, column, web)} :
           /\ _cache' = h.cache
           /\ _header' = h.header
           /\ http' = h.log
           /\ ret' = <<[op |-> "header", series_id |-> series_id,
                        column |-> column, calls |-> h.calls,
                        retrieved |-> h.retrieved, result |-> h.result]>>
           /\ trip' = <<>>
           /\ UNCHANGED <<files, csVars, numVars>>

DoCall(series_id, a) ==
    \E web \in WebsWhen(series_id \notin DOMAIN _cache, series_id) :
        \E c \in {Call(_cache, _header, series_id, a, web)} :
           /\ _cache' = c.cache
           /\ _header' = c.header
           /\ http' = c.log
           /\ ret' = <<[op |-> "__call__", series_id |-> series_id, args |-> a,
                        cached |-> series_id \in DOMAIN _cache,
                        calls |-> c.calls, retrieved |-> c.retrieved,
                        freq |-> c.freq,
                        result |-> c.result]>>
           /\ trip' = <<>>
           /\ UNCHANGED <<files, csVars, numVars>>

\* pop: the entry of series_id, or None, removed from the cache
DoPop(series_id) ==
    /\ _cache' = DictPop(_cache, series_id)
    /\ ret' = <<[op |-> "pop", series_id |-> series_id,
                 result |-> IF series_id \in DOMAIN _cache
                            THEN Returned(_cache[series_id]) ELSE ReturnedNone]>>
    /\ http' = <<>>
    /\ trip' = <<>>
    /\ UNCHANGED <<_header, files, csVars, numVars>>

DoClear ==
    /\ _cache' = <<>>
    /\ ret' = <<[op |-> "clear"]>>
    /\ http' = <<>>
    /\ trip' = IF trip # <<>> /\ trip[1].stage = 1
               THEN <<[trip[1] EXCEPT !.stage = 2]>> ELSE <<>>
    /\ UNCHANGED <<_header, files, csVars, numVars>>

DoDump(savefile) ==
    \E d \in {dump(_cache, files, savefile)} :
       /\ files' = d.files
       /\ ret' = <<[op |-> "dump", savefile |-> savefile, result |-> d.result]>>
       /\ http' = <<>>
       /\ trip' = <<[stage |-> 1, file |-> OrSavefile(savefile), snap |-> _cache]>>
       /\ UNCHANGED <<_cache, _header, csVars, numVars>>

DoLoad(savefile) ==
    \E l \in {load(_cache, files, savefile)} :
       /\ _cache' = l.cache
       /\ ret' = <<[op |-> "load", savefile |-> savefile, result |-> l.result]>>
       /\ http' = <<>>
       /\ trip' = IF /\ trip # <<>> /\ trip[1].stage = 2
                     /\ trip[1].file = OrSavefile(savefile)
                     /\ l.result.kind = "return"
                  THEN <<[trip[1] EXCEPT !.stage = 3]>> ELSE <<>>
       /\ UNCHANGED <<_header, files, csVars, numVars>>

Next ==
    \/ \E series_id \in SeriesIds : DoRequestSeries(series_id)
    \/ \E series_id \in SeriesIds, alfred_mode \in BOOLEAN :
          DoRequestSeriesObservations(series_id, alfred_mode)
    \/ \E series_id \in SeriesIds : DoGetSeries(series_id)
    \/ \E series_id \in SeriesIds, column \in Columns : DoHeader(series_id, column)
    \/ \E series_id \in SeriesIds, a \in CallArgs : DoCall(series_id, a)
    \/ \E series_id \in SeriesIds : DoPop(series_id)
    \/ DoClear

Spec == Init /\ [][Next]_vars

\* Retrieval, and the pickle file of the cache
NextPickle ==
    \/ \E series_id \in SeriesIds : DoGetSeries(series_id)
    \/ \E series_id \in SeriesIds : DoPop(series_id)
    \/ DoClear
    \/ \E savefile \in SavefileArgs : DoDump(savefile)
    \/ \E savefile \in SavefileArgs : DoLoad(savefile)

SpecPickle == Init /\ [][NextPickle]_vars

----------------------------------------------------------------------------
(* Properties of construct_series (checked under SpecCS) *)

CSDone == csOut # <<>> /\ csOut[1].result.kind = "return"
CSArgs == csOut[1]
CSRows == csOut[1].result.value

\* What the input row i is: its period date, whether its value is numeric,
\* whether it was released by the vintage.
PeriodDate(i) == strftime_int(FreqDate(to_datetime(csIn[i].date), CSArgs.freq))
Numeric(i) == to_numeric(csIn[i].value) # NaN
ByVintage(i) == _date2int(csIn[i].realtime_start) <= CSArgs.vintage
RealtimeStart(i) == _date2int(csIn[i].realtime_start)

PeriodDates == {PeriodDate(i) : i \in DOMAIN csIn}
InRange(d) == CSArgs.start <= d /\ d <= Min(CSArgs.end, CSArgs.vintage)
RowsAt(d) == {k \in DOMAIN CSRows : CSRows[k].date = d}

\* the result holds exactly one row of date d, and its realtime_start is r
OneRowAt(d, r) ==
    /\ Cardinality(RowsAt(d)) = 1
    /\ \A k \in RowsAt(d) : CSRows[k].realtime_start = r

\* C3: every row returned by construct_series has realtime_start <= vintage.
C3_ReleasedByVintage ==
    CSDone => \A k \in DOMAIN CSRows : CSRows[k].realtime_start <= CSArgs.vintage

\* the numeric-valued rows of date d released by the vintage
Qualifying(d) == {i \in DOMAIN csIn : Numeric(i) /\ ByVintage(i) /\ PeriodDate(i) = d}
LatestRealtimeStart(S) ==
    CHOOSE r \in {RealtimeStart(i) : i \in S} : \A i \in S : RealtimeStart(i) <= r

\* C4 as stated: with release=0, every observation date that has a numeric
\* row released by the vintage gets exactly one row, the latest such release.
C4_LatestReleaseEveryDate ==
    CSDone /\ CSArgs.release = [kind |-> "int", n |-> 0] =>
        \A d \in PeriodDates :
            Qualifying(d) # {} => OneRowAt(d, LatestRealtimeStart(Qualifying(d)))

\* C4 amended: the same for the dates within [start, min(end, vintage)].
C4_LatestReleaseInRange ==
    CSDone /\ CSArgs.release = [kind |-> "int", n |-> 0] =>
        \A d \in PeriodDates :
            InRange(d) /\ Qualifying(d) # {} =>
                OneRowAt(d, LatestRealtimeStart(Qualifying(d)))

\* C4 witness: a date in range with two releases by the vintage was reduced
\* to its later release.
C4_Witness ==
    /\ CSDone /\ CSArgs.release = [kind |-> "int", n |-> 0]
    /\ \E d \in PeriodDates :
          /\ InRange(d)
          /\ \E i, j \in Qualifying(d) : RealtimeStart(i) < RealtimeStart(j)
          /\ RowsAt(d) # {}

\* the n-th smallest realtime_start among the rows S
NthRealtimeStart(S, n) ==
    CHOOSE r \in {RealtimeStart(i) : i \in S} :
        /\ Cardinality({i \in S : RealtimeStart(i) < r}) < n
        /\ Cardinality({i \in S : RealtimeStart(i) <= r}) >= n

ExactRelease(d, S, n) ==
    IF Cardinality(S) >= n THEN OneRowAt(d, NthRealtimeStart(S, n))
    ELSE RowsAt(d) = {}

\* all rows of date d in the table
AllReleases(d) == {i \in DOMAIN csIn : PeriodDate(i) = d}

\* the numeric-valued rows of date d that pass the vintage filter (every
\* numeric row passes when no numeric row was released by the vintage)
KeptReleases(d) ==
    {i \in DOMAIN csIn :
        /\ Numeric(i) /\ PeriodDate(i) = d
        /\ (\E j \in DOMAIN csIn : Numeric(j) /\ ByVintage(j)) => ByVintage(i)}

\* C5 as stated: with release=n > 0, every observation date gets exactly its
\* n-th earliest release, and dates with fewer than n releases are omitted.
C5_NthReleaseEveryDate ==
    CSDone /\ CSArgs.release.kind = "int" /\ CSArgs.release.n > 0 =>
        \A d \in PeriodDates : ExactRelease(d, AllReleases(d), CSArgs.release.n)

\* C5 amended: with release=n > 0, every date within [start, min(end,
\* vintage)] gets exactly the n-th earliest of its numeric-valued rows that
\* pass the vintage filter, dates with fewer than n such rows are omitted,
\* and so are the dates outside that range.
C5_NthKeptReleaseInRange ==
    CSDone /\ CSArgs.release.kind = "int" /\ CSArgs.release.n > 0 =>
        \A d \in PeriodDates :
            IF InRange(d) THEN ExactRelease(d, KeptReleases(d), CSArgs.release.n)
            ELSE RowsAt(d) = {}

\* C5 witness: release=2 and a date with two kept releases of different
\* realtime_start, given latest first, returned at its second release.
C5_Witness ==
    /\ CSDone /\ CSArgs.release = [kind |-> "int", n |-> 2]
    /\ \E d \in PeriodDates :
          /\ InRange(d) /\ RowsAt(d) # {}
          /\ \E i, j \in KeptReleases(d) :
                i < j /\ RealtimeStart(j) < RealtimeStart(i)

\* C7: the date index of the result has no duplicate and is ascending.
C7_UniqueSortedIndex ==
    CSDone => \A i, j \in DOMAIN CSRows : i < j => CSRows[i].date < CSRows[j].date

\* C7 witness: a table given in descending date order came back with both
\* dates.
C7_Witness ==
    /\ CSDone /\ Len(CSRows) >= 2 /\ Len(csIn) >= 2
    /\ TsLT(to_datetime(csIn[2].date), to_datetime(csIn[1].date))

----------------------------------------------------------------------------
(* Properties of the Alfred object (checked under Spec) *)

Called(op) == ret # <<>> /\ ret[1].op = op
Last == ret[1]

\* the requests of the call for one api, in their order
RequestsOf(api) ==
    Pick(http, {i \in DOMAIN http : http[i].url.api = api})

\* the ALFRED url first, the plain FRED url only after the ALFRED request
\* failed, each at most once
FallbackOrder(log) ==
    /\ Len(log) <= 2
    /\ Len(log) >= 1 => IsAlfredUrl(log[1].url)
    /\ Len(log) = 2 => ~ log[1].ok /\ ~ IsAlfredUrl(log[2].url)

BothFailed(log) == Len(log) = 2 /\ ~ log[1].ok /\ ~ log[2].ok

\* C1: request_series and request_series_observations request the ALFRED
\* url first and the FRED url only when that request failed, each at most
\* once, and return an empty DataFrame when both requests fail.
C1_FallbackOnce ==
    /\ Called("request_series") =>
          /\ http # <<>> /\ FallbackOrder(http)
          /\ BothFailed(http) => Last.result = Returned(<<>>)
    /\ Called("request_series_observations") =>
          /\ http # <<>> /\ FallbackOrder(http)
          /\ BothFailed(http) => Last.result = Returned(<<>>)
    /\ Called("get_series") \/ Called("__call__") \/ Called("header") =>
          /\ FallbackOrder(RequestsOf("series"))
          /\ FallbackOrder(RequestsOf("series/observations"))

\* C1 witness: both requests of request_series_observations failed, the
\* ALFRED one before the FRED one, and an empty table was returned.
C1_Witness ==
    /\ Called("request_series_observations")
    /\ BothFailed(http) /\ IsAlfredUrl(http[1].url) /\ ~ IsAlfredUrl(http[2].url)
    /\ Last.result = Returned(<<>>)

\* the period dates of the observations cached for the series of the call
CachedPeriodDates ==
    {strftime_int(FreqDate(to_datetime(_cache[Last.series_id].observations[i].date),
                           Last.freq)) :
        i \in DOMAIN _cache[Last.series_id].observations}

\* C2: __call__ on a cached series issues no request and builds its result
\* from the cached observations; on a series that is not cached it calls
\* get_series exactly once, and returns None when that retrieval yields
\* nothing.
C2_CacheElseRetrieve ==
    Called("__call__") =>
        /\ Last.cached =>
              /\ http = <<>> /\ Last.calls = 0
              /\ Last.result.kind # "None"
              /\ Last.result.kind = "return" =>
                    \A k \in DOMAIN Last.result.value :
                        Last.result.value[k].date \in CachedPeriodDates
        /\ ~ Last.cached =>
              /\ Last.calls = 1
              /\ Len(RequestsOf("series")) \in {1, 2}
              /\ Last.retrieved.kind = "return" /\ Last.retrieved.value = 0
                 => Last.result = ReturnedNone

\* C2 witness: a cached series was returned without any request.
C2_Witness ==
    /\ Called("__call__") /\ Last.cached /\ http = <<>>
    /\ Last.result.kind = "return" /\ Last.result.value # <<>>

\* the dates whose release construct_series selected for the call, before
\* the range filter
SelectedDates ==
    LET df == IndexByDate(SelectRelease(sort_values(VintageFilter(
                 FreqAdjust(CoerceDropNa(_cache[Last.series_id].observations),
                            Last.freq),
                 Last.args.vintage)), Last.args.release))
    IN {df[i].date : i \in DOMAIN df}

ReturnedDates == {Last.result.value[k].date : k \in DOMAIN Last.result.value}
StartOf(a) == IF a.start = 0 THEN DefaultStart ELSE a.start
EndOf(a) == IF a.end = 0 THEN EndOfTime ELSE a.end

C8_GetSeries ==
    [][Called("get_series")' =>
        IF Last.series' = <<>>
        THEN /\ Last.result'.kind = "return" /\ Last.result'.value = 0
             /\ RequestsOf("series/observations")' = <<>>
             /\ _cache' = _cache
        ELSE Last.result'.kind = "return" =>
             /\ Last.series_id' \in DOMAIN _cache'
             /\ _cache'[Last.series_id'].series = Last.series'
             /\ Last.result'.value = Len(_cache'[Last.series_id'].observations)]_vars

\* C8 witness: a retrieval without metadata returned 0 and the entry cached
\* earlier for the id is still there.
C8_Witness ==
    /\ Called("get_series") /\ Last.series = <<>>
    /\ Last.result.kind = "return" /\ Last.result.value = 0
    /\ Last.series_id \in DOMAIN _cache

----------------------------------------------------------------------------
(* Properties of load and dump (checked under SpecPickle) *)

\* C9: load returns the number of series loaded from the pickle file.
C9_LoadReturnsNumberLoaded ==
    Called("load") /\ Last.result.kind = "return" =>
        Last.result.value = Len(files[OrSavefile(Last.savefile)])

\* C10: dump saves every cached series, returns their number and leaves the
\* cache unchanged; after dump(f), clear() and load(f) the cache is what it
\* was before the dump.
C10_DumpClearLoad ==
    /\ [](trip # <<>> /\ trip[1].stage = 3 => _cache = trip[1].snap)
    /\ [][Called("dump")' =>
            /\ _cache' = _cache
            /\ Last.result' = Returned(Cardinality(DOMAIN _cache))
            /\ Len(files'[OrSavefile(Last.savefile')]) = Cardinality(DOMAIN _cache)
            /\ \A k \in DOMAIN _cache :
                  \E i \in DOMAIN files'[OrSavefile(Last.savefile')] :
                      files'[OrSavefile(Last.savefile')][i] =
                          [key |-> k, item |-> _cache[k]]]_vars

\* C10 witness: two cached series, one of them without observations, came
\* back from the file after dump, clear and load.
C10_Witness ==
    /\ trip # <<>> /\ trip[1].stage = 3
    /\ Cardinality(DOMAIN _cache) = 2
    /\ \E k \in DOMAIN _cache : _cache[k].observations = <<>>

----------------------------------------------------------------------------
(* Alfred.request_category, Alfred.get_category *)

CategoryIds == {"32991", "0"}

\* formatter of the query url of the category apis; args holds the keyword
\* arguments of the request (the offset of a 'category/series' page)
_category_url(api, category_id, args) ==
    [api |-> api, category_id |-> category_id, args |-> args]

\* what the web service may answer to the 'category' query and to the
\* 'category/children' query
CategoryMeta == [id |-> 32991, name |-> "Money", parent_id |-> 0]
ChildMeta == [id |-> 32992, name |-> "Banking", parent_id |-> 32991]
CategoryAnswers ==
    {None, Response([categories |-> <<CategoryMeta>>]),
     Response([categories |-> <<>>])}
ChildrenAnswers ==
    {None, Response([categories |-> <<>>]),
     Response([categories |-> <<ChildMeta>>])}

\* the series of a category held by the web service, the page size of its
\* answers, and the requests for a page of them that fail (FailAt counts
\* the 'category/series' requests of a call from 1; 0: none fails)
CategorySeries ==
    <<[id |-> "GDP"], [id |-> "HWI"], [id |-> "M2"], [id |-> "USREC"]>>
Limits == {1, 2}
CategoryWebs ==
    [category : CategoryAnswers, children : ChildrenAnswers,
     nseries : 0..Len(CategorySeries), limit : Limits,
     fail_at : 0..Len(CategorySeries)]

\* the page of series that starts at offset
SeriesPage(web, offset) ==
    [seriess |-> SubSeq(CategorySeries, offset + 1,
                        Min(offset + web.limit, web.nseries)),
     limit |-> web.limit, offset |-> offset, count |-> web.nseries]

\* requests_get(url) for the category apis: the response, or None when the
\* request failed; nth counts the 'category/series' requests of the call
requests_get_category(url, web, nth) ==
    IF url.api = "category" THEN web.category
    ELSE IF url.api = "category/children" THEN web.children
    ELSE IF web.fail_at = nth THEN None
    ELSE Response(SeriesPage(web, url.args[1].offset))

\* request_category: dict() when the request failed, else the contents;
\* and the request made
request_category(category_id, api, kwargs, web, nth) ==
    LET url == _category_url(api, category_id, kwargs)
        r == requests_get_category(url, web, nth)
    IN [value |-> IF r = None THEN <<>> ELSE r[1],
        log |-> <<[url |-> url, ok |-> r # None]>>]

\* the while loop of get_category: pages of series are requested until a
\* page without series; s['seriess'] raises KeyError on a dict without it
RECURSIVE CollectSeries(_, _, _, _, _, _)
CollectSeries(category_id, offset, nth, series, log, web) ==
    LET s == request_category(category_id, "category/series",
                              <<[offset |-> offset]>>, web, nth)
    IN IF "seriess" \notin DOMAIN s.value
       THEN [kind |-> "raise", series |-> series, log |-> log \o s.log]
       ELSE IF s.value.seriess = <<>>
       THEN [kind |-> "return", series |-> series, log |-> log \o s.log]
       ELSE CollectSeries(category_id, offset + s.value.limit, nth + 1,
                          series \o s.value.seriess, log \o s.log, web)

\* get_category: the category with its children and its series, None when
\* the answer has no 'categories'; and the requests made
get_category(category_id, web) ==
    LET c == request_category(category_id, "category", <<>>, web, 0)
        ch == request_category(category_id, "category/children", <<>>, web, 0)
        children == IF "categories" \in DOMAIN ch.value
                    THEN ch.value.categories ELSE <<>>
        coll == CollectSeries(category_id, 0, 1, <<>>, <<>>, web)
    IN IF "categories" \notin DOMAIN c.value
       THEN [result |-> ReturnedNone, log |-> c.log]
       ELSE IF c.value.categories = <<>>     \* IndexError: c['categories'][0]
       THEN [result |-> Raised, log |-> c.log]
       ELSE IF coll.kind = "raise"
       THEN [result |-> Raised, log |-> c.log \o ch.log \o coll.log]
       ELSE [result |-> Returned(
                 [id |-> c.value.categories[1].id,
                  name |-> c.value.categories[1].name,
                  parent_id |-> c.value.categories[1].parent_id,
                  children |-> children,
                  series |-> coll.series]),
             log |-> c.log \o ch.log \o coll.log]

CategoryApis == {"category", "category/children", "category/series"}

DoRequestCategory(category_id, api) ==
    \E web \in CategoryWebs :
        LET r == request_category(category_id, api,
                                  IF api = "category/series"
                                  THEN <<[offset |-> 0]>> ELSE <<>>, web, 1)
        IN /\ http' = r.log
           /\ ret' = <<[op |-> "request_category", category_id |-> category_id,
                        api |-> api, result |-> Returned(r.value)]>>
           /\ UNCHANGED <<_cache, _header, files, trip, csVars, numVars>>

DoGetCategory(category_id) ==
    \E web \in CategoryWebs :
        LET c == get_category(category_id, web)
        IN /\ http' = c.log
           /\ ret' = <<[op |-> "get_category", category_id |-> category_id,
                        result |-> c.result]>>
           /\ UNCHANGED <<_cache, _header, files, trip, csVars, numVars>>

NextCategory ==
    \/ \E category_id \in CategoryIds, api \in CategoryApis :
          DoRequestCategory(category_id, api)
    \/ \E category_id \in CategoryIds : DoGetCategory(category_id)

SpecCategory == Init /\ [][NextCategory]_vars

----------------------------------------------------------------------------
(* Properties of get_category (checked under SpecCategory) *)

\* the requests of the last call that failed
FailedRequests == Pick(http, {i \in DOMAIN http : ~ http[i].ok})

\* C15: a failed request never makes get_category raise: request_category
\* returns an empty dict for a failed request, get_category returns None
\* when the 'category' request fails, and returns normally when the
\* 'category/children' request or a 'category/series' request fails (with
\* an empty children list in the former case).
C15_FailedRequestNeverRaises ==
    /\ Called("request_category") /\ FailedRequests # <<>> =>
          Last.result = Returned(<<>>)
    /\ Called("get_category") /\ FailedRequests # <<>> =>
          /\ Last.result.kind # "raise"
          /\ RequestsOf("category") = FailedRequests =>
                Last.result.kind = "None"
          /\ RequestsOf("category/children") # <<>>
             /\ ~ RequestsOf("category/children")[1].ok =>
                Last.result.value.children = <<>>

----------------------------------------------------------------------------
(* Properties of pop, header and the cache (checked under Spec) *)

\* C11: pop(series_id) returns the cached entry of series_id and removes
\* exactly that entry; for an id that is not cached it returns None and
\* changes nothing; every other entry is left as it was, and keys()
\* afterwards does not contain series_id.
C11_Pop ==
    [][Called("pop")' =>
        /\ IF Last.series_id' \in keys(_cache)
           THEN /\ Last.result'.kind = "return"
                /\ Last.result'.value = _cache[Last.series_id']
           ELSE Last.result'.kind = "None" /\ _cache' = _cache
        /\ keys(_cache') = keys(_cache) \ {Last.series_id'}
        /\ \A k \in keys(_cache') : _cache'[k] = _cache[k]]_vars

\* C11 witness: a cached entry was popped and returned while another series
\* stays in the cache.
C11_Witness ==
    /\ Called("pop") /\ Last.result.kind = "return"
    /\ Last.series_id \notin keys(_cache)
    /\ keys(_cache) # {}

\* the last row of the metadata cached for series_id
LastMetaRow(series_id) ==
    _cache[series_id].series[Len(_cache[series_id].series)]

\* C12: header(series_id, column) for a series held in the cache returns
\* the column of the last row of the metadata cached for it now; for a
\* series that cannot be retrieved it returns the placeholder.
C12_HeaderOfCachedMetadata ==
    Called("header") =>
        IF Last.series_id \in keys(_cache)
        THEN Last.result = RowGet(LastMetaRow(Last.series_id), Last.column,
                                  Placeholder(Last.series_id))
        ELSE Last.series_id \notin DOMAIN _header =>
                Last.result = Placeholder(Last.series_id)

\* the outcome of the get_series call that the last call made, if any
Retrieval ==
    CASE Called("get_series") -> <<Last.result>>
      [] Called("__call__") /\ ~ Last.cached -> <<Last.retrieved>>
      [] Called("header") /\ Last.calls = 1 -> <<Last.retrieved>>
      [] OTHER -> <<>>

\* the last call made a get_series call that succeeded: the metadata was
\* not empty, so that the observations were requested, and nothing raised
Retrieved ==
    /\ Retrieval # <<>>
    /\ Retrieval[1].kind = "return"
    /\ RequestsOf("series/observations") # <<>>

\* C18: every entry of the cache holds a non-empty 'series' table and an
\* 'observations' table, and keys() is the set of ids whose latest
\* successful get_series was not followed by a pop of the id or a clear:
\* the cache starts empty, and a call changes keys() only by removing the
\* id popped, by removing every id (clear), or by adding the id retrieved.
C18_CacheEntriesAndKeys ==
    /\ [](\A k \in keys(_cache) :
            /\ DOMAIN _cache[k] = {"observations", "series"}
            /\ _cache[k].series # <<>>
            /\ DOMAIN _cache[k].observations = 1..Len(_cache[k].observations))
    /\ [][keys(_cache') =
            IF Called("pop")' THEN keys(_cache) \ {Last.series_id'}
            ELSE IF Called("clear")' THEN {}
            ELSE IF Retrieved' THEN keys(_cache) \cup {Last.series_id'}
            ELSE keys(_cache)]_vars

\* C18 witness: __call__ returned None for a series whose retrieval found
\* no observations, and the series is cached with its metadata.
C18_Witness ==
    /\ Called("__call__") /\ Last.result.kind = "None"
    /\ Last.series_id \in keys(_cache)
    /\ _cache[Last.series_id].observations = <<>>
    /\ keys(_cache) # {Last.series_id}

-----------------------------------------------------------------------------
(* factors_em (alfred.py): fill the missing entries of a panel by the EM   *)
(* algorithm.  A panel is a sequence of rows, a row a sequence of floats   *)
(* (<<v>> or NaN).  Numbers are exact: the entries given are multiples of  *)
(* Unit, so that every mean the code takes is an integer.  A standardized  *)
(* entry (z - mean) / std of a column with n numbers of sum S is kept as   *)
(* its numerator n * z - S; the positive factor n * std of the column is   *)
(* the one the code multiplies back.                                       *)

MaxIter == 3
MaxMissing == 3

RECURSIVE Pow(_, _)
Pow(b, n) == IF n = 0 THEN 1 ELSE b * Pow(b, n - 1)

\* entries of the panels given: the rows and columns differ, but for the
\* first column of the second panel, which is constant
BasePanels ==
    { << <<0, 1, 2>>, <<1, 0, 1>>, <<2, 2, 0>> >>,
      << <<1, 0, 2>>, <<1, 1, 0>>, <<1, 2, 1>> >> }

NRows(Z) == Len(Z)
NCols(Z) == Len(Z[1])
Cells(Z) == (1..NRows(Z)) \X (1..NCols(Z))

Unit == 2 * Pow(3, MaxIter + 1)

\* the entries missing are among the first row and the first column
Masks ==
    {m \in SUBSET {<<1, 1>>, <<1, 2>>, <<1, 3>>, <<2, 1>>, <<3, 1>>} :
        Cardinality(m) <= MaxMissing}

EmPanels ==
    {[i \in 1..NRows(b) |-> [j \in 1..NCols(b) |->
          IF <<i, j>> \in m THEN NaN ELSE <<Unit * b[i][j]>>]] :
        b \in BasePanels, m \in Masks}

\* tol = 1 / tol_inv
EmArgs ==
    [max_iter : 0..MaxIter, p : {0, 2}, kmax : {0, 3},
     tol_inv : {2, 1000000}]

\* np.isnan(Z)
IsNan(Z) == [i \in 1..NRows(Z) |-> [j \in 1..NCols(Z) |-> Z[i][j] = NaN]]

HasNan(Z) == \E c \in Cells(Z) : Z[c[1]][c[2]] = NaN

RECURSIVE ColSum(_, _, _)
ColSum(Z, j, i) ==
    IF i = 0 THEN 0
    ELSE ColSum(Z, j, i - 1) + (IF Z[i][j] = NaN THEN 0 ELSE Z[i][j][1])

\* the numbers of column j: pandas skips NaN in mean() and std()
ColCount(Z, j) == Cardinality({i \in 1..NRows(Z) : Z[i][j] # NaN})
ColTotal(Z, j) == ColSum(Z, j, NRows(Z))

\* Z.iloc[:, col].mean()
ColMean(Z, j) ==
    IF ColCount(Z, j) = 0 THEN NaN ELSE <<ColTotal(Z, j) \div ColCount(Z, j)>>

\* Z.std() of column j is a positive number: it is NaN for fewer than two
\* numbers (ddof = 1) and 0 for a constant column
StdPositive(Z, j) ==
    /\ ColCount(Z, j) >= 2
    /\ \E i, k \in 1..NRows(Z) :
          Z[i][j] # NaN /\ Z[k][j] # NaN /\ Z[i][j] # Z[k][j]

\* (Z - mean) / std: 0 / 0 and x / NaN are NaN
Standardize(Z) ==
    [i \in 1..NRows(Z) |-> [j \in 1..NCols(Z) |->
        IF Z[i][j] = NaN \/ ~ StdPositive(Z, j) THEN NaN
        ELSE <<ColCount(Z, j) * Z[i][j][1] - ColTotal(Z, j)>>]]

\* (W * std) + mean, with the mean and std of the panel Z standardized
Unstandardize(W, Z) ==
    [i \in 1..NRows(W) |-> [j \in 1..NCols(W) |->
        IF W[i][j] = NaN \/ ~ StdPositive(Z, j) THEN NaN
        ELSE <<(W[i][j][1] + ColTotal(Z, j)) \div ColCount(Z, j)>>]]

\* the asserts, the copy and the initial fill by column means
em_fill(X) ==
    LET Y == IsNan(X)
    IN  IF \/ \E i \in 1..NRows(X) : \A j \in 1..NCols(X) : Y[i][j]
           \/ \E j \in 1..NCols(X) : \A i \in 1..NRows(X) : Y[i][j]
        THEN Raised
        ELSE Returned([i \in 1..NRows(X) |-> [j \in 1..NCols(X) |->
                 IF Y[i][j] THEN ColMean(X, j) ELSE X[i][j]]])

\* min(N, T) in select_bai_ng, len(s) in factors_em
GCT(Z) == Min(NRows(Z), NCols(Z))

\* kmax or len(s) - 1
KmaxOrDefault(kmax, Z) == IF kmax # 0 THEN kmax ELSE GCT(Z) - 1

\* select_bai_ng(Z, p, kmax): the first index where the criterion, cut to
\* its first (kmax or GCT) values, rises; the index of an empty array
\* raises IndexError.  The values of the criterion are not computed: any
\* index is possible.  On a panel with NaN the SVD raises, or every
\* comparison is False.  The outcome is <<k>> for the index k returned and
\* IndexError for the exception.
IndexError == <<>>

select_bai_ng(W, kmax) ==
    LET K == Min(IF kmax # 0 THEN kmax ELSE GCT(W), GCT(W))
    IN  {IndexError} \cup
        (IF HasNan(W) THEN {} ELSE {<<k>> : k \in 0..(K - 2)})

\* np.linalg.svd of a panel with NaN raises LinAlgError or returns NaN,
\* depending on the LAPACK build
SvdOutcomes(W) == IF HasNan(W) THEN {"raise", "nan"} ELSE {"ok"}

\* values a projection on 0 < r < len(s) factors may give to a missing entry
Projected == {0, Unit}

RECURSIVE SumSq(_, _, _)
SumSq(A, B, cells) ==
    IF cells = {} THEN 0
    ELSE LET c == CHOOSE x \in cells : TRUE
             d == A[c[1]][c[2]][1] - B[c[1]][c[2]][1]
         IN  d * d + SumSq(A, B, cells \ {c})

Zeros(Z) == [i \in 1..NRows(Z) |-> [j \in 1..NCols(Z) |-> <<0>>]]

\* delta < tol, delta = (norm(Z - old_Z) / norm(Z)) ** 2; a NaN delta
\* (NaN entries, or 0 / 0) is not below tol
DeltaBelowTol(Z, old_Z, tol_inv) ==
    /\ ~ HasNan(Z) /\ ~ HasNan(old_Z)
    /\ LET normsq == SumSq(Z, Zeros(Z), Cells(Z))
           diffsq == SumSq(Z, old_Z, Cells(Z))
       IN  /\ normsq > 0
           /\ diffsq < (normsq + tol_inv - 1) \div tol_inv

NumFactorsFixed(p, kmax, ic, W) == KmaxOrDefault(kmax, W)

\* the number of factors of an iteration: ic is the outcome of
\* select_bai_ng, used when p # 0
NumFactors(p, kmax, ic, W) ==
    IF p # 0 THEN ic[1] ELSE KmaxOrDefault(kmax, W)

\* the "E" step on the standardized panel W of Z: the missing entries (mask
\* Y) take the entries of the projection E on r factors.  E is 0 for
\* r = 0 and W for r >= len(s); in between it gives v, in the units of Z;
\* svd is the outcome of np.linalg.svd.
EStep(W, Z, Y, svd, r, v) ==
    [i \in 1..NRows(W) |-> [j \in 1..NCols(W) |->
        IF ~ Y[i][j] THEN W[i][j]
        ELSE IF svd = "nan" THEN NaN
        ELSE IF r = 0 THEN <<0>>
        ELSE IF r >= GCT(W) THEN W[i][j]
        ELSE <<ColCount(Z, j) * v - ColTotal(Z, j)>>]]

\* for n_iter in range(max_iter): another iteration is due
LoopForever(n_iter, max_iter) == TRUE

LoopContinues(n_iter, max_iter) == n_iter < max_iter

\* the frame of a call factors_em(X, kmax, p, max_iter, tol): n_iter counts
\* the iterations run, r, ic and small describe the latest one (the number
\* of factors, whether select_bai_ng chose it, whether delta < tol)
InitEM ==
    /\ InitAlfred
    /\ csIn = <<>>
    /\ csOut = <<>>
    /\ boot = <<>>
    /\ \E X \in EmPanels, args \in EmArgs :
          em = [pc |-> "start", X |-> X, args |-> args, Z |-> X,
                n_iter |-> 0, r |-> 0, ic |-> FALSE, small |-> FALSE,
                result |-> ReturnedNone]

EmFill ==
    /\ em.pc = "start"
    /\ \E f \in {em_fill(em.X)} :
          em' = IF f.kind = "raise"
                THEN [em EXCEPT !.pc = "done", !.result = Raised]
                ELSE [em EXCEPT !.pc = "loop", !.Z = f.value]
    /\ UNCHANGED <<alfredVars, csVars, boot>>

EmIterate ==
    /\ em.pc = "loop"
    /\ LoopContinues(em.n_iter, em.args.max_iter)
    /\ \E W \in {Standardize(em.Z)} :
       \E svd \in SvdOutcomes(W),
          ic \in select_bai_ng(W, KmaxOrDefault(em.args.kmax, W)),
          v \in Projected :
          IF svd = "raise" \/ (em.args.p # 0 /\ ic = IndexError)
          THEN em' = [em EXCEPT !.pc = "done", !.result = Raised,
                                !.n_iter = @ + 1, !.ic = em.args.p # 0]
          ELSE \E r \in {NumFactors(em.args.p, em.args.kmax, ic, W)} :
               \E W2 \in {EStep(W, em.Z, IsNan(em.X), svd, r, v)} :
               \E Z2 \in {Unstandardize(W2, em.Z)} :
               \E small \in {DeltaBelowTol(Z2, em.Z, em.args.tol_inv)} :
                  em' = [em EXCEPT !.pc = IF small THEN "done" ELSE "loop",
                                   !.Z = Z2, !.n_iter = @ + 1, !.r = r,
                                   !.ic = em.args.p # 0, !.small = small,
                                   !.result = IF small THEN Returned(Z2)
                                              ELSE @]
    /\ UNCHANGED <<alfredVars, csVars, boot>>

\* the loop ran max_iter times
EmReturn ==
    /\ em.pc = "loop"
    /\ ~ LoopContinues(em.n_iter, em.args.max_iter)
    /\ em' = [em EXCEPT !.pc = "done", !.result = Returned(em.Z)]
    /\ UNCHANGED <<alfredVars, csVars, boot>>

NextEM == EmFill \/ EmIterate \/ EmReturn

SpecEM == InitEM /\ [][NextEM]_vars

\* a call that is started runs on: nothing in factors_em waits
SpecEMFair == SpecEM /\ WF_vars(NextEM)

-----------------------------------------------------------------------------
(* Properties of factors_em (checked under SpecEM and SpecEMFair) *)

EmDone == em.pc = "done"

\* the precondition asserted: no row and no column of X is all missing
NoEmptyRowOrColumn(X) ==
    /\ \A i \in 1..NRows(X) : \E j \in 1..NCols(X) : X[i][j] # NaN
    /\ \A j \in 1..NCols(X) : \E i \in 1..NRows(X) : X[i][j] # NaN

\* C13: for a panel X with no all-missing row and no all-missing column,
\* factors_em returns a panel of the shape of X with no missing value, in
\* which every entry observed in X keeps its value.
C13_FillsOnlyMissing ==
    EmDone /\ NoEmptyRowOrColumn(em.X) =>
        /\ em.result.kind = "return"
        /\ NRows(em.result.value) = NRows(em.X)
        /\ \A i \in 1..NRows(em.X) :
              /\ Len(em.result.value[i]) = NCols(em.X)
              /\ \A j \in 1..NCols(em.X) :
                    /\ em.result.value[i][j] # NaN
                    /\ em.X[i][j] # NaN => em.result.value[i][j] = em.X[i][j]

\* C16: factors_em always terminates; its loop runs at most max_iter
\* iterations, an iteration whose delta is below tol ends it and nothing
\* else does before max_iter iterations, and the panel returned is the one
\* of the last iteration run.
C16_Terminates ==
    /\ <>EmDone
    /\ [](em.n_iter <= em.args.max_iter)
    /\ [](em.pc = "loop" => ~ em.small)
    /\ [](EmDone /\ em.result.kind = "return" =>
            /\ em.small \/ em.n_iter = em.args.max_iter
            /\ em.result.value = em.Z)

\* C16 witness: the loop ended before max_iter iterations, at the end of
\* the second one, the first whose delta was below tol.
C16_Witness ==
    /\ EmDone /\ em.result.kind = "return"
    /\ em.small
    /\ em.n_iter > 1 /\ em.n_iter < em.args.max_iter

\* an iteration of the loop ran to its end
IterationRan == em.n_iter' = em.n_iter + 1 /\ em.result'.kind # "raise"

\* C17 as stated: whether the iteration stops is decided by the information
\* criterion of select_bai_ng, so the loop is never ended by an iteration
\* that did not compute the criterion.
C17_StopDecidedByCriterion ==
    EmDone /\ em.result.kind = "return" /\ em.small => em.ic

\* C17 amended: an iteration ends the loop exactly when its delta is below
\* tol; select_bai_ng is computed exactly when p # 0, and its result is
\* only the number of factors r of the iteration, which is kmax (or
\* len(s) - 1) when p = 0.
C17_StopDecidedByDelta ==
    [][IterationRan =>
          /\ em.small' = DeltaBelowTol(em.Z', em.Z, em.args.tol_inv)
          /\ em.pc' = (IF em.small' THEN "done" ELSE "loop")
          /\ em.ic' = (em.args.p # 0)
          /\ IF em.args.p # 0
             THEN <<em.r'>> \in select_bai_ng(Standardize(em.Z),
                                    KmaxOrDefault(em.args.kmax, em.Z))
             ELSE em.r' = KmaxOrDefault(em.args.kmax, em.Z)]_vars

\* C17 witness: an iteration computed the criterion, which chose one
\* factor, and the loop went on because delta was not below tol.
C17_Witness ==
    /\ em.pc = "loop" /\ em.n_iter > 0
    /\ em.ic /\ em.r = 1
    /\ ~ em.small

-----------------------------------------------------------------------------
(* Interest.bootstrap_rates (recipes.py): spot rates from par yields.      *)
(* A float is a fixed-point number with seven decimals: the integer v is   *)
(* the number v / Scale.  Products and quotients are rounded down to the   *)
(* seventh decimal, which stands for the rounding of the float operations. *)

Scale == 10000000

MaxPeriods == 3

\* a * b, by halves of four digits so that no partial product overflows
MulFix[a \in Nat, b \in Nat] ==
    LET ah == a \div 10000
        al == a % 10000
        bh == b \div 10000
        bl == b % 10000
    IN  ah * bh * 10 + (ah * bl + al * bh + (al * bl) \div 10000) \div 1000

\* the first k decimals of r / b, for r < b
DivDigits[r \in Nat, b \in Nat, k \in Nat] ==
    IF k = 0 THEN 0
    ELSE ((r * 10) \div b) * Pow(10, k - 1)
         + DivDigits[(r * 10) % b, b, k - 1]

\* a / b
DivFix[a \in Nat, b \in Nat] ==
    (a \div b) * Scale + DivDigits[a % b, b, 7]

\* x ** n
PowFix[x \in Nat, n \in Nat] ==
    IF n = 0 THEN Scale ELSE MulFix[PowFix[x, n - 1], x]

\* the largest y in lo..hi with y ** n <= x
Bisect[x \in Nat, n \in Nat, lo \in Nat, hi \in Nat] ==
    IF lo >= hi THEN lo
    ELSE LET mid == (lo + hi + 1) \div 2
         IN  IF PowFix[mid, n] <= x THEN Bisect[x, n, mid, hi]
             ELSE Bisect[x, n, lo, mid - 1]

\* x ** (1 / n), for x >= 1: the root lies between 1 and 1 + (x - 1) / n
NthRoot[x \in Nat, n \in Nat] ==
    Bisect[x, n, Scale, Scale + (x - Scale) \div n + 1]

SumSeq[s \in Seq(Int)] == IF s = <<>> THEN 0 ELSE s[1] + SumSeq[Tail(s)]

\* flow / ((1 + spot) ** n)
present_value[flow \in Nat, n \in Nat, spot \in Nat] ==
    DivFix[flow, PowFix[Scale + spot, n]]

\* flows and spot are lists (a scalar is given as a list of one): a list
\* of one is repeated to the length of the other, and zip stops at the
\* shorter list
discounted_cash_flow(flows, spot, first) ==
    LET fl == IF Len(flows) = 1 THEN [k \in 1..Len(spot) |-> flows[1]]
              ELSE flows
        sp == IF Len(spot) = 1 THEN [k \in 1..Len(fl) |-> spot[1]] ELSE spot
    IN  SumSeq[[k \in 1..Min(Len(fl), Len(sp)) |->
                   present_value[fl[k], first + k - 1, sp[k]]]]

PerPeriodAnnual(r, m) == r

\* r / m: a rate per period from an annualized rate
PerPeriod(r, m) == r \div m

bootstrap_rates(ytm, nominal, m) ==
    LET n == Len(nominal) + 1
        spot == [k \in 1..Len(nominal) |-> PerPeriod(nominal[k], m)]
        pv == Scale - discounted_cash_flow(<<PerPeriod(ytm, m)>>, spot, 1)
    IN  (NthRoot[DivFix[Scale + PerPeriod(ytm, m), pv], n] - Scale) * m

\* list(np.arange(0.0525, 0.1025, 0.0025)): twenty yields
JorionYtm == [k \in 1..20 |-> 525000 + 25000 * (k - 1)]

jorion_sol5 ==
    <<797000, 827000, 859000, 892000, 925000, 961000, 997000, 1036000,
      1077000, 1120000>>

\* atol of np.allclose
Atol == 1000

\* par yields of other curves: 2%, 6% and 10%
ParYields == {200000, 600000, 1000000}

PeriodsPerYear == {1, 2, 4}

\* the curves bootstrapped: the self-check (m = 2), and every curve of up
\* to MaxPeriods par yields with every m
YieldCurves ==
    {<<JorionYtm, 2>>} \cup
    ((UNION {[1..len -> ParYields] : len \in 1..MaxPeriods})
        \X PeriodsPerYear)

InitBoot ==
    /\ InitAlfred
    /\ csIn = <<>>
    /\ csOut = <<>>
    /\ em = <<>>
    /\ \E c \in YieldCurves :
          boot = [ytm |-> c[1], m |-> c[2], spot |-> <<>>]

\* for y in ytm: spot = np.append(spot, bootstrap_rates(y, nominal=spot, m))
BootStep ==
    /\ Len(boot.spot) < Len(boot.ytm)
    /\ \E r \in {bootstrap_rates(boot.ytm[Len(boot.spot) + 1], boot.spot,
                                 boot.m)} :
          boot' = [boot EXCEPT !.spot = Append(@, r)]
    /\ UNCHANGED <<alfredVars, csVars, em>>

NextBoot == BootStep

SpecBoot == InitBoot /\ [][NextBoot]_vars

-----------------------------------------------------------------------------
(* Properties of bootstrap_rates (checked under SpecBoot) *)

Abs(x) == IF x < 0 THEN 0 - x ELSE x

\* the price of the bond of n periods paying the coupon ytm[n] / m each
\* period and 1 at the end, discounted at the first n spot rates found
ParBondPrice(n) ==
    LET c == PerPeriod(boot.ytm[n], boot.m)
    IN  discounted_cash_flow(
            [k \in 1..n |-> IF k = n THEN Scale + c ELSE c],
            [k \in 1..n |-> PerPeriod(boot.spot[k], boot.m)], 1)

\* C14: every spot curve found prices the par bond of each maturity at par
\* (coupons ytm / m discounted at the earlier spot rates plus 1 + ytm / m
\* discounted at the new rate sum to 1, within the tolerance of the
\* self-check), and for the Jorion yields with m = 2 the last ten rates are
\* within 0.0001 of the solution table.
C14_BootstrapPricesAtPar ==
    /\ \A n \in 1..Len(boot.spot) : Abs(ParBondPrice(n) - Scale) <= Atol
    /\ boot.ytm = JorionYtm /\ boot.m = 2 /\ Len(boot.spot) = Len(JorionYtm) =>
          \A k \in 1..Len(jorion_sol5) :
             Abs(boot.spot[Len(boot.spot) - Len(jorion_sol5) + k]
                 - jorion_sol5[k]) <= Atol

\* C14 witness: the twenty Jorion yields were bootstrapped with m = 2, and
\* the curve found rises above the yields.
C14_Witness ==
    /\ boot.ytm = JorionYtm /\ boot.m = 2 /\ Len(boot.spot) = Len(JorionYtm)
    /\ boot.spot[Len(boot.spot)] > boot.ytm[Len(boot.ytm)] + Atol

====
